---- MODULE Spec2Model ----
(***************************************************************************)
(* Model of npm-packages/convex/scripts/build.py: the build orchestrator   *)
(* that runs the build tasks on a thread pool, collects their futures with *)
(* as_completed, and on full success swaps the workspace directory into    *)
(* 'dist'.                                                                 *)
(*                                                                         *)
(* The main thread and every worker thread are processes of the model;     *)
(* the file system of the working directory, the module-level dict         *)
(* 'times', the console and the exit status are its shared state.          *)
(***************************************************************************)
EXTENDS Naturals, Integers, Sequences, FiniteSets, TLC

(***************************************************************************)
(* The task registry: the order of the pool.submit calls of main().        *)
(***************************************************************************)
TypeTasks ==
    << "build_esm_types", "build_internal_esm_types",
       "build_cjs_types", "build_internal_cjs_types" >>

ScriptTasks ==
    << "build_browser_script_tag", "build_react_script_tag",
       "build_standalone_cli" >>

Registry == TypeTasks \o << "build_cjs_and_esm" >> \o ScriptTasks

\* Number of registered tasks the model runs: a window of the registry that
\* starts at the last type-declaration task, so that it holds a task of
\* every shape (setup + one command, setup + three commands, one command).
NumTasks == 3

FirstModelled == Len(TypeTasks)
LastModelled == IF FirstModelled + NumTasks - 1 <= Len(Registry)
                THEN FirstModelled + NumTasks - 1
                ELSE Len(Registry)

\* The submitted tasks, in submission order.
SubmitOrder == SubSeq(Registry, FirstModelled, LastModelled)

Tasks == { SubmitOrder[i] : i \in 1..Len(SubmitOrder) }

\* The digits random.random() can yield: two values, so that the two draws
\* of main() can differ and can coincide.
RandomSuffixes == { "1", "2" }

\* Path("tmpDist" + str(random.random())[2:])
TmpDistName(suffix) == "tmpDist" \o suffix

DIST == "dist"

(***************************************************************************)
(* Directory trees.  A directory is the set of the paths below it, a path  *)
(* a sequence of names.                                                    *)
(***************************************************************************)

\* The output published by an earlier run: one opaque, complete tree.
OldOutput == { << "previous-output" >> }

\* Output subdirectory of a type-declaration task: the name given to
\* mkdir and to tsc --outDir.
TypesDir(t) ==
    CASE t = "build_esm_types"          -> "esm-types"
      [] t = "build_internal_esm_types" -> "internal-esm-types"
      [] t = "build_cjs_types"          -> "cjs-types"
      [] t = "build_internal_cjs_types" -> "internal-cjs-types"

IsTypeTask(t) == \E i \in 1..Len(TypeTasks) : TypeTasks[i] = t

\* What a task writes itself before its first command: mkdir(parents=True,
\* exist_ok=True) of its subdirectories and the package.json markers.
SetupPaths(t) ==
    IF IsTypeTask(t)
    THEN { << TypesDir(t) >>, << TypesDir(t), "package.json" >> }
    ELSE IF t = "build_cjs_and_esm"
    THEN { << "esm" >>, << "cjs" >>,
           << "esm", "package.json" >>, << "cjs", "package.json" >> }
    ELSE {}

\* The external commands of a task, in the order of its run() calls.
Commands(t) ==
    IF IsTypeTask(t) THEN << "tsc" >>
    ELSE CASE t = "build_cjs_and_esm" ->
                << "build.cjs esm", "build.cjs cjs", "node-browser.mjs" >>
           [] t = "build_browser_script_tag" -> << "build.cjs browser-script-tag" >>
           [] t = "build_react_script_tag"   -> << "build.cjs react-script-tag" >>
           [] t = "build_standalone_cli"     -> << "build.cjs standalone-cli" >>

\* What command k of task t leaves in the directory it is given when it
\* exits 0: the type tasks and the first two bundling commands write into
\* the subdirectory made for them, the others into a tree of their own.
CommandOutput(t, k) ==
    IF IsTypeTask(t) THEN { << TypesDir(t), "out" >> }
    ELSE IF t = "build_cjs_and_esm" /\ k = 1 THEN { << "esm", "out" >> }
    ELSE IF t = "build_cjs_and_esm" /\ k = 2 THEN { << "cjs", "out" >> }
    ELSE { << Commands(t)[k] >> }

\* Everything a successful task leaves in the workspace.
TaskPaths(t) ==
    SetupPaths(t) \cup UNION { CommandOutput(t, k) : k \in 1..Len(Commands(t)) }

\* The complete output of a run.
RunOutput == UNION { TaskPaths(t) : t \in Tasks }

NoDirs == [ n \in {} |-> {} ]

Exists(f, name) == name \in DOMAIN f

\* Writing below directory 'dir', creating it when it is missing.
WriteInto(f, dir, paths) ==
    [ n \in DOMAIN f \cup {dir} |->
        IF n = dir
        THEN (IF Exists(f, dir) THEN f[dir] ELSE {}) \cup paths
        ELSE f[n] ]

\* Variant of Move: the tree is copied and src stays.
Move_copy(f, src, dst) ==
    IF ~Exists(f, src)
    THEN [ err |-> "FileNotFoundError", fs |-> f ]
    ELSE [ err |-> "none",
           fs  |-> [ n \in DOMAIN f \cup {dst} |->
                       IF n = dst THEN f[src] ELSE f[n] ] ]

\* shutil.move(src, dst) inside one directory of one file system:
\*   src missing                       -> FileNotFoundError
\*   dst an existing directory         -> src is moved INTO it, as dst/src,
\*                                        unless dst/src exists (shutil.Error)
\*   otherwise                         -> os.rename(src, dst)
Move(f, src, dst) ==
    IF ~Exists(f, src)
    THEN [ err |-> "FileNotFoundError", fs |-> f ]
    ELSE IF Exists(f, dst)
    THEN IF << src >> \in f[dst]
         THEN [ err |-> "Error", fs |-> f ]
         ELSE [ err |-> "none",
                fs  |-> [ n \in DOMAIN f \ {src} |->
                            IF n = dst
                            THEN f[dst] \cup { << src >> }
                                        \cup { << src >> \o p : p \in f[src] }
                            ELSE f[n] ] ]
    ELSE [ err |-> "none",
           fs  |-> [ n \in (DOMAIN f \ {src}) \cup {dst} |->
                       IF n = dst THEN f[src] ELSE f[n] ] ]

\* Variant of RmTree: the tree is left in place.
RmTree_keeps(f, name) == f

\* shutil.rmtree(name, ignore_errors=True) when it removes the tree.
RmTree(f, name) == [ n \in DOMAIN f \ {name} |-> f[n] ]


(***************************************************************************)
(* State.                                                                  *)
(***************************************************************************)
VARIABLES
    pc,             \* where the main thread is in main()
    exitCode,       \* exit status of the process; NoCode while it runs
    TEMP_DIR,       \* the module global TEMP_DIR (the workspace name)
    temp_to_delete, \* main()'s local: the disposable name
    nextSubmit,     \* index in SubmitOrder of the next pool.submit call
    tpc,            \* per task: where its worker is in timed()
    tcmd,           \* per task: index of the run() call it is at
    exc,            \* per task: the exception its function raised
    times,          \* the dict 'times': per task name, how often its key
                    \* was assigned (0: the key is absent)
    fs,             \* the working directory: directory name -> tree
    printed,        \* what was written to the console
    snapshot,       \* as_completed: futures found finished when it began,
                    \* not yet yielded
    arrivedOk,      \* as_completed: futures that finished successfully
                    \* after it began, not yet yielded
    arrivedFail,    \* as_completed: the first future that finished with an
                    \* exception after it began, not yet yielded
    yielded,        \* futures as_completed has handed to the loop
    acted,          \* the future whose exception ended the loop
    finishOrder,    \* history: the failed futures in completion order
    fslog,          \* history: the file operations of the swap, in order
    fs0,            \* history: the working directory before the run
    wsMoved,        \* history: the workspace tree when it was moved
    began,          \* history: the futures finished when as_completed began
    unfinishedAtExit, \* history: the tasks not finished when the loop was
                    \* left on a failure
    dur,            \* the dict 'times': per task name, the value assigned
    report,         \* the lines of the report, in the order printed
    starts,         \* history: per task, how often a worker entered it
    cmdlog,         \* history: per task, the run() calls made, in order,
                    \* each with the command's index and how it ended
    runs            \* two processes running main() in one working
                    \* directory: per process its position, its names, the
                    \* tasks done, its exit status and its swap steps

vars == << pc, exitCode, TEMP_DIR, temp_to_delete, nextSubmit, tpc, tcmd,
           exc, times, fs, printed, snapshot, arrivedOk, arrivedFail,
           yielded, acted, finishOrder, fslog, fs0, wsMoved, began,
           unfinishedAtExit, dur, report, starts, cmdlog, runs >>

NoCode == 0 - 1
NoTask == "no task"
NoName == "unset"
NoException == "none"

Finished(t) == tpc[t] = "finished"
Failed(t) == Finished(t) /\ exc[t] # NoException
Succeeded(t) == Finished(t) /\ exc[t] = NoException

\* The initial working directory: a first build (no 'dist') or a rebuild
\* over the output of an earlier run.
InitialDirs == { NoDirs, [ n \in {DIST} |-> OldOutput ] }

\* The processes of the runs that share one working directory.
Runs == { "first", "second" }

\* A process that has not entered main() yet.
NotStarted ==
    [ pc |-> "start", TEMP_DIR |-> NoName, temp_to_delete |-> NoName,
      done |-> {}, exitCode |-> NoCode, moved |-> {}, swap |-> << >> ]

\* The state when main() is entered in a working directory among 'dirs'.
StartOfRun(dirs) ==
    /\ pc = "start"
    /\ exitCode = NoCode
    /\ TEMP_DIR = "tmpDist"
    /\ temp_to_delete = NoName
    /\ nextSubmit = 1
    /\ tpc = [ t \in Tasks |-> "unsubmitted" ]
    /\ tcmd = [ t \in Tasks |-> 0 ]
    /\ exc = [ t \in Tasks |-> NoException ]
    /\ times = [ t \in Tasks |-> 0 ]
    /\ fs \in dirs
    /\ printed = {}
    /\ snapshot = {}
    /\ arrivedOk = {}
    /\ arrivedFail = NoTask
    /\ yielded = {}
    /\ acted = NoTask
    /\ finishOrder = << >>
    /\ fslog = << >>
    /\ fs0 = fs
    /\ wsMoved = {}
    /\ began = {}
    /\ unfinishedAtExit = {}
    /\ dur = [ t \in Tasks |-> 0 ]
    /\ report = << >>
    /\ starts = [ t \in Tasks |-> 0 ]
    /\ cmdlog = [ t \in Tasks |-> << >> ]
    /\ runs = [ r \in Runs |-> NotStarted ]

Init == StartOfRun(InitialDirs)

(***************************************************************************)
(* The worker threads: one task each, running timed() of log_duration.     *)
(***************************************************************************)

\* Variant of ProvidedDir: the tasks are given the published directory.
ProvidedDir_dist == DIST

\* provide_temp_dir: the directory a task is given, read from the global
\* when the task is called.
ProvidedDir == TEMP_DIR

\* Variant of RunPrints: run() only re-raises.
RunPrints_silent(cmd) == {}

\* run(): what it prints itself when the command exits non-zero, before
\* it re-raises: "error while running" cmd, the exception, its output.
RunPrints(cmd) ==
    { << "run", cmd, "error while running" >>,
      << "run", cmd, "exception" >>,
      << "run", cmd, "captured output" >> }

\* Variants of TimedRecords: the assignment in a finally block; no
\* assignment at all.
TimedRecords_always(raised) == TRUE
TimedRecords_never(raised) == FALSE

\* log_duration: times[func.__name__] is assigned after func() returned;
\* an exception of func() leaves timed() before the assignment.
TimedRecords(raised) == ~raised

\* The worker takes its work item and enters the task function: the
\* task's own directory setup, up to its first run() call.
Start(t) ==
    /\ tpc[t] = "queued"
    /\ tpc' = [ tpc EXCEPT ![t] = "running" ]
    /\ tcmd' = [ tcmd EXCEPT ![t] = 1 ]
    /\ starts' = [ starts EXCEPT ![t] = @ + 1 ]
    /\ fs' = IF SetupPaths(t) = {} THEN fs
             ELSE WriteInto(fs, ProvidedDir, SetupPaths(t))
    /\ UNCHANGED << pc, exitCode, TEMP_DIR, temp_to_delete, nextSubmit, exc,
                    times, printed, snapshot, arrivedOk, arrivedFail,
                    yielded, acted, finishOrder, fslog,
                    fs0, wsMoved, began, unfinishedAtExit,
                    dur, report, cmdlog, runs >>

\* run(cmd), the command exits 0: its output is in the directory it was
\* given; the task goes on to its next run() call or returns.
RunOk(t) ==
    /\ tpc[t] = "running"
    /\ cmdlog' = [ cmdlog EXCEPT ![t] = Append(@, << tcmd[t], "exit 0" >>) ]
    /\ fs' = WriteInto(fs, ProvidedDir, CommandOutput(t, tcmd[t]))
    /\ IF tcmd[t] = Len(Commands(t))
       THEN /\ tpc' = [ tpc EXCEPT ![t] = "returned" ]
            /\ tcmd' = tcmd
       ELSE /\ tcmd' = [ tcmd EXCEPT ![t] = @ + 1 ]
            /\ tpc' = tpc
    /\ UNCHANGED << pc, exitCode, TEMP_DIR, temp_to_delete, nextSubmit, exc,
                    times, printed, snapshot, arrivedOk, arrivedFail,
                    yielded, acted, finishOrder, fslog,
                    fs0, wsMoved, began, unfinishedAtExit,
                    dur, report, starts, runs >>

\* Variant of Reraises: the except clause of run() ends without raise.
Reraises_no == FALSE

\* raise e, the last statement of run()'s except clause.
Reraises == TRUE

\* run(cmd), the command exits non-zero: run() prints and re-raises
\* CalledProcessError, which leaves the task function and timed().
RunFail(t) ==
    /\ tpc[t] = "running"
    /\ cmdlog' = [ cmdlog EXCEPT ![t] = Append(@, << tcmd[t], "exit non-zero" >>) ]
    /\ printed' = printed \cup RunPrints(Commands(t)[tcmd[t]])
    /\ IF Reraises
       THEN /\ exc' = [ exc EXCEPT ![t] = "CalledProcessError" ]
            /\ tpc' = [ tpc EXCEPT ![t] = "left" ]
            /\ tcmd' = tcmd
       ELSE /\ exc' = exc
            /\ IF tcmd[t] = Len(Commands(t))
               THEN /\ tpc' = [ tpc EXCEPT ![t] = "returned" ]
                    /\ tcmd' = tcmd
               ELSE /\ tcmd' = [ tcmd EXCEPT ![t] = @ + 1 ]
                    /\ tpc' = tpc
    /\ UNCHANGED << pc, exitCode, TEMP_DIR, temp_to_delete, nextSubmit,
                    times, fs, snapshot, arrivedOk, arrivedFail, yielded,
                    acted, finishOrder, fslog,
                    fs0, wsMoved, began, unfinishedAtExit,
                    dur, report, starts, runs >>

\* The values time.time() - t0 can take: with a coarse clock every task
\* measures the same duration, with a finer one durations differ or tie.
CoarseDurations == { 1 }
Durations == { 1, 2, 3 }

\* timed() after func(): the duration is recorded, or the exception passes
\* through.
Timed(t, measured) ==
    /\ tpc[t] \in { "returned", "left" }
    /\ IF TimedRecords(exc[t] # NoException)
       THEN /\ times' = [ times EXCEPT ![t] = @ + 1 ]
            /\ \E d \in measured : dur' = [ dur EXCEPT ![t] = d ]
       ELSE UNCHANGED << times, dur >>
    /\ tpc' = [ tpc EXCEPT ![t] = "timed" ]
    /\ UNCHANGED << pc, exitCode, TEMP_DIR, temp_to_delete, nextSubmit, tcmd,
                    exc, fs, printed, snapshot, arrivedOk, arrivedFail,
                    yielded, acted, finishOrder, fslog,
                    fs0, wsMoved, began, unfinishedAtExit,
                    report, starts, cmdlog, runs >>

\* timed() under a coarse clock.
Record(t) == Timed(t, CoarseDurations)

\* timed() under a finer clock.
RecordMeasured(t) == Timed(t, Durations)

\* The work item sets the future's result or exception, and the future
\* tells as_completed's waiter, if one is installed.  After a failure has
\* arrived the list of arrivals is never yielded from again, so later
\* arrivals are not kept.
Finish(t) ==
    /\ tpc[t] = "timed"
    /\ tpc' = [ tpc EXCEPT ![t] = "finished" ]
    /\ finishOrder' = IF exc[t] # NoException
                      THEN Append(finishOrder, t) ELSE finishOrder
    /\ IF pc = "loop" /\ arrivedFail = NoTask
       THEN IF exc[t] = NoException
            THEN /\ arrivedOk' = arrivedOk \cup {t}
                 /\ arrivedFail' = arrivedFail
            ELSE /\ arrivedFail' = t
                 /\ arrivedOk' = arrivedOk
       ELSE UNCHANGED << arrivedOk, arrivedFail >>
    /\ UNCHANGED << pc, exitCode, TEMP_DIR, temp_to_delete, nextSubmit, tcmd,
                    exc, times, fs, printed, snapshot, yielded, acted,
                    fslog,
                    fs0, wsMoved, began, unfinishedAtExit,
                    dur, report, starts, cmdlog, runs >>

Worker(t) == Start(t) \/ RunOk(t) \/ RunFail(t) \/ Record(t) \/ Finish(t)

(***************************************************************************)
(* The main thread: main().                                                *)
(***************************************************************************)

\* The two random.random() draws: the workspace name and the disposable
\* name.  Nothing compares them.
ChooseNames ==
    /\ pc = "start"
    /\ \E a \in RandomSuffixes, b \in RandomSuffixes :
          /\ TEMP_DIR' = TmpDistName(a)
          /\ temp_to_delete' = TmpDistName(b)
    /\ pc' = "submit"
    /\ UNCHANGED << exitCode, nextSubmit, tpc, tcmd, exc, times, fs, printed,
                    snapshot, arrivedOk, arrivedFail, yielded, acted,
                    finishOrder, fslog,
                    fs0, wsMoved, began, unfinishedAtExit,
                    dur, report, starts, cmdlog, runs >>

\* Variant of AfterSubmit: a registration is skipped.
AfterSubmit_skip(i) == i + 2

\* The list of pool.submit calls is gone through once, one call after
\* the other.
AfterSubmit(i) == i + 1

\* pool.submit(task): the pool has more workers (20) than there are tasks,
\* so every submitted task gets a worker of its own.
Submit ==
    /\ pc = "submit"
    /\ nextSubmit <= Len(SubmitOrder)
    /\ tpc' = [ tpc EXCEPT ![SubmitOrder[nextSubmit]] = "queued" ]
    /\ nextSubmit' = AfterSubmit(nextSubmit)
    /\ UNCHANGED << pc, exitCode, TEMP_DIR, temp_to_delete, tcmd, exc, times,
                    fs, printed, snapshot, arrivedOk, arrivedFail, yielded,
                    acted, finishOrder, fslog,
                    fs0, wsMoved, began, unfinishedAtExit,
                    dur, report, starts, cmdlog, runs >>

\* as_completed(children) begins: under the futures' locks it takes the
\* set of futures that are finished already and installs its waiter on
\* the others.  The finished ones are yielded first, in the order of a set.
AsCompleted ==
    /\ pc = "submit"
    /\ nextSubmit > Len(SubmitOrder)
    /\ snapshot' = { t \in Tasks : Finished(t) }
    /\ began' = snapshot'
    /\ pc' = "loop"
    /\ UNCHANGED << exitCode, TEMP_DIR, temp_to_delete, nextSubmit, tpc, tcmd,
                    exc, times, fs, printed, arrivedOk, arrivedFail, yielded,
                    acted, finishOrder, fslog,
                    fs0, wsMoved, unfinishedAtExit,
                    dur, report, starts, cmdlog, runs >>

\* Variant of NextYield: the loop takes the futures in submission order
\* (for child in children), blocking on each in turn.
NextYield_submission ==
    LET left == { i \in 1..Len(SubmitOrder) : SubmitOrder[i] \notin yielded } IN
      IF left = {} THEN {}
      ELSE LET i == CHOOSE j \in left : \A k \in left : j <= k IN
             IF tpc[SubmitOrder[i]] = "finished" THEN { SubmitOrder[i] } ELSE {}

\* The futures as_completed can yield next: one of the snapshot; then the
\* arrivals in the order they finished, which is every successful arrival
\* before the first failed one.
NextYield ==
    IF snapshot # {} THEN snapshot
    ELSE IF arrivedOk # {} THEN arrivedOk
    ELSE IF arrivedFail # NoTask THEN {arrivedFail}
    ELSE {}

\* Variant of Catches: no except clause.
Catches_nothing(e) == FALSE

\* except subprocess.CalledProcessError: sys.exit(1)
Catches(e) == e = "CalledProcessError"

\* Where main() is after child.result() raised e: sys.exit(1) and an
\* uncaught exception both leave main().  Variant: the exception is
\* swallowed and the loop goes on.
AfterRaise_swallow(e) == "loop"

AfterRaise(e) == "exiting"

\* Variant of WorkersJoined: the process ends without waiting.
WorkersJoined_no == TRUE

\* When the last thread of the interpreter may end: the interpreter joins
\* the pool's worker threads before the process exits, and a worker ends
\* only after the work items queued for it.
WorkersJoined == \A t \in Tasks : tpc[t] \in { "unsubmitted", "finished" }

\* One pass of the loop whose child.result() returns.
ChildOk(t) ==
    /\ pc = "loop"
    /\ t \in NextYield
    /\ exc[t] = NoException
    /\ yielded' = yielded \cup {t}
    /\ snapshot' = snapshot \ {t}
    /\ arrivedOk' = arrivedOk \ {t}
    /\ UNCHANGED << pc, exitCode, TEMP_DIR, temp_to_delete, nextSubmit, tpc,
                    tcmd, exc, times, fs, printed, arrivedFail, acted,
                    finishOrder, fslog,
                    fs0, wsMoved, began, unfinishedAtExit,
                    dur, report, starts, cmdlog, runs >>

\* One pass of the loop whose child.result() raises the task's exception:
\* CalledProcessError is caught and turned into sys.exit(1); any other
\* exception leaves main() and the interpreter prints its traceback.
ChildRaises(t) ==
    /\ pc = "loop"
    /\ t \in NextYield
    /\ exc[t] # NoException
    /\ yielded' = yielded \cup {t}
    /\ acted' = t
    /\ unfinishedAtExit' = { u \in Tasks : ~Finished(u) }
    /\ snapshot' = {}
    /\ arrivedOk' = {}
    /\ arrivedFail' = NoTask
    /\ printed' = IF Catches(exc[t]) THEN printed
                  ELSE printed \cup { << "interpreter", exc[t], "traceback" >> }
    /\ exitCode' = 1
    /\ pc' = AfterRaise(exc[t])
    /\ UNCHANGED << TEMP_DIR, temp_to_delete, nextSubmit, tpc, tcmd, exc,
                    times, fs, finishOrder, fslog,
                    fs0, wsMoved, began,
                    dur, report, starts, cmdlog, runs >>

\* Variant of AllYielded: the loop is left after the first future.
AllYielded_first == yielded # {}

\* as_completed is exhausted: every future of 'children' was yielded.
AllYielded == yielded = Tasks

\* The loop ends without an exception.
LoopDone ==
    /\ pc = "loop"
    /\ AllYielded
    /\ pc' = "move_old"
    /\ UNCHANGED << exitCode, TEMP_DIR, temp_to_delete, nextSubmit, tpc, tcmd,
                    exc, times, fs, printed, snapshot, arrivedOk, arrivedFail,
                    yielded, acted, finishOrder, fslog,
                    fs0, wsMoved, began, unfinishedAtExit,
                    dur, report, starts, cmdlog, runs >>

\* An exception that leaves main(): traceback, exit status 1.
Uncaught(e) ==
    /\ printed' = printed \cup { << "interpreter", e, "traceback" >> }
    /\ exitCode' = 1
    /\ pc' = "exiting"

\* Variant of Passes: no except clause around the move.
Passes_nothing(err) == FALSE

\* except FileNotFoundError: pass
Passes(err) == err = "FileNotFoundError"

\* try: shutil.move("dist", temp_to_delete)
\* except FileNotFoundError: pass
MoveOld ==
    /\ pc = "move_old"
    /\ LET r == Move(fs, DIST, temp_to_delete) IN
         /\ fs' = r.fs
         /\ fslog' = Append(fslog, << "move old", r.err >>)
         /\ IF r.err = "none" \/ Passes(r.err)
            THEN /\ pc' = "move_new"
                 /\ UNCHANGED << printed, exitCode >>
            ELSE Uncaught(r.err)
    /\ UNCHANGED << TEMP_DIR, temp_to_delete, nextSubmit, tpc, tcmd, exc,
                    times, snapshot, arrivedOk, arrivedFail, yielded, acted,
                    finishOrder, fs0, wsMoved, began, unfinishedAtExit,
                    dur, report, starts, cmdlog, runs >>

\* shutil.move(TEMP_DIR, "dist")
MoveNew ==
    /\ pc = "move_new"
    /\ LET r == Move(fs, TEMP_DIR, DIST) IN
         /\ fs' = r.fs
         /\ fslog' = Append(fslog, << "move new", r.err >>)
         /\ wsMoved' = IF Exists(fs, TEMP_DIR) THEN fs[TEMP_DIR] ELSE {}
         /\ IF r.err = "none"
            THEN /\ pc' = "rmtree"
                 /\ UNCHANGED << printed, exitCode >>
            ELSE Uncaught(r.err)
    /\ UNCHANGED << TEMP_DIR, temp_to_delete, nextSubmit, tpc, tcmd, exc,
                    times, snapshot, arrivedOk, arrivedFail, yielded, acted,
                    finishOrder, fs0, began, unfinishedAtExit,
                    dur, report, starts, cmdlog, runs >>

\* shutil.rmtree(temp_to_delete, ignore_errors=True)
RemoveOld ==
    /\ pc = "rmtree"
    /\ fs' = RmTree(fs, temp_to_delete)
    /\ fslog' = Append(fslog, << "rmtree", "none" >>)
    /\ pc' = "report"
    /\ UNCHANGED << exitCode, TEMP_DIR, temp_to_delete, nextSubmit, tpc, tcmd,
                    exc, times, printed, snapshot, arrivedOk, arrivedFail,
                    yielded, acted, finishOrder,
                    fs0, wsMoved, began, unfinishedAtExit,
                    dur, report, starts, cmdlog, runs >>

\* The keys of the dict 'times'.
TimesKeys == { t \in Tasks : times[t] > 0 }

\* The orders in which the elements of S can be listed.
Orders(S) ==
    { s \in [ 1..Cardinality(S) -> S ] :
        \A i, j \in 1..Cardinality(S) : i # j => s[i] # s[j] }

\* Variant of SortedByDuration: sorted with reverse=True.
SortedByDuration_reverse(s) ==
    \A i, j \in 1..Len(s) : i < j => dur[s[i]] >= dur[s[j]]

\* sorted(times.keys(), key=lambda task: times[task]); keys of equal
\* duration in any order.
SortedByDuration(s) ==
    \A i, j \in 1..Len(s) : i < j => dur[s[i]] <= dur[s[j]]

\* The report: one line per key of 'times', then the total; main()
\* returns and the process is to exit with status 0.
Report ==
    /\ pc = "report"
    /\ \E s \in Orders(TimesKeys) :
          /\ SortedByDuration(s)
          /\ report' = s \o << "total" >>
    /\ printed' = printed \cup { << "main", t, "duration" >> : t \in TimesKeys }
                          \cup { << "main", "total", "duration" >> }
    /\ exitCode' = 0
    /\ pc' = "exiting"
    /\ UNCHANGED << TEMP_DIR, temp_to_delete, nextSubmit, tpc, tcmd, exc,
                    times, fs, snapshot, arrivedOk, arrivedFail, yielded,
                    acted, finishOrder, fslog,
                    fs0, wsMoved, began, unfinishedAtExit,
                    dur, starts, cmdlog, runs >>

\* The process ends with the exit status main() left.
Terminate ==
    /\ pc = "exiting"
    /\ WorkersJoined
    /\ pc' = "terminated"
    /\ UNCHANGED << exitCode, TEMP_DIR, temp_to_delete, nextSubmit, tpc, tcmd,
                    exc, times, fs, printed, snapshot, arrivedOk, arrivedFail,
                    yielded, acted, finishOrder, fslog,
                    fs0, wsMoved, began, unfinishedAtExit,
                    dur, report, starts, cmdlog, runs >>

Main ==
    \/ ChooseNames \/ Submit \/ AsCompleted
    \/ (\E t \in Tasks : ChildOk(t))
    \/ (\E t \in Tasks : ChildRaises(t))
    \/ LoopDone \/ MoveOld \/ MoveNew \/ RemoveOld \/ Report \/ Terminate

Next == Main \/ (\E t \in Tasks : Worker(t))

Spec == Init /\ [][Next]_vars

(***************************************************************************)
(* Runs whose durations are measured by a finer clock, every command       *)
(* exiting 0.                                                              *)
(***************************************************************************)

WorkerMeasured(t) == Start(t) \/ RunOk(t) \/ RecordMeasured(t) \/ Finish(t)

MainSucceeding ==
    \/ ChooseNames \/ Submit \/ AsCompleted
    \/ (\E t \in Tasks : ChildOk(t))
    \/ LoopDone \/ MoveOld \/ MoveNew \/ RemoveOld \/ Report \/ Terminate

MeasuredNext == MainSucceeding \/ (\E t \in Tasks : WorkerMeasured(t))

MeasuredSpec == Init /\ [][MeasuredNext]_vars

(***************************************************************************)
(* Runs with I/O errors and a crash: a task's own directory setup raises   *)
(* OSError, the move of the workspace raises OSError, rmtree fails, the    *)
(* process is killed between the two moves.  Every command exits 0.  These *)
(* runs rebuild over an earlier output, with or without a directory that   *)
(* an earlier run left under a tmpDist name, which the names drawn now may *)
(* or may not hit.                                                         *)
(***************************************************************************)

\* The name an earlier run left a directory under.
LeftoverName == TmpDistName("1")

RebuildDirs ==
    { [ n \in {DIST} |-> OldOutput ],
      [ n \in {DIST, LeftoverName} |-> OldOutput ] }

FaultInit == StartOfRun(RebuildDirs)

\* The task function raises OSError in its mkdir or its write_text: the
\* directories may be made already, the markers are not all written.
SetupFails(t) ==
    /\ tpc[t] = "queued"
    /\ SetupPaths(t) # {}
    /\ tpc' = [ tpc EXCEPT ![t] = "left" ]
    /\ exc' = [ exc EXCEPT ![t] = "OSError" ]
    /\ starts' = [ starts EXCEPT ![t] = @ + 1 ]
    /\ \/ fs' = fs
       \/ fs' = WriteInto(fs, ProvidedDir,
                          { q \in SetupPaths(t) : Len(q) = 1 })
    /\ UNCHANGED << pc, exitCode, TEMP_DIR, temp_to_delete, nextSubmit, tcmd,
                    times, printed, snapshot, arrivedOk, arrivedFail,
                    yielded, acted, finishOrder, fslog,
                    fs0, wsMoved, began, unfinishedAtExit,
                    dur, report, cmdlog, runs >>

\* shutil.move(TEMP_DIR, "dist") raises OSError and moves nothing.
MoveNewFails ==
    /\ pc = "move_new"
    /\ fslog' = Append(fslog, << "move new", "OSError" >>)
    /\ Uncaught("OSError")
    /\ UNCHANGED << TEMP_DIR, temp_to_delete, nextSubmit, tpc, tcmd, exc,
                    times, fs, snapshot, arrivedOk, arrivedFail, yielded,
                    acted, finishOrder, fs0, wsMoved, began,
                    unfinishedAtExit, dur, report, starts, cmdlog, runs >>

\* The process is killed between the two moves.
Crash ==
    /\ pc = "move_new"
    /\ pc' = "killed"
    /\ UNCHANGED << exitCode, TEMP_DIR, temp_to_delete, nextSubmit, tpc, tcmd,
                    exc, times, fs, printed, snapshot, arrivedOk, arrivedFail,
                    yielded, acted, finishOrder, fslog,
                    fs0, wsMoved, began, unfinishedAtExit,
                    dur, report, starts, cmdlog, runs >>

\* Variant of IgnoreErrors: rmtree called without ignore_errors.
IgnoreErrors_off == FALSE

\* ignore_errors=True
IgnoreErrors == TRUE

\* shutil.rmtree(temp_to_delete, ignore_errors=True) fails: the tree
\* stays, and the error is ignored.
RemoveOldFails ==
    /\ pc = "rmtree"
    /\ Exists(fs, temp_to_delete)
    /\ IF IgnoreErrors
       THEN /\ fslog' = Append(fslog, << "rmtree", "ignored" >>)
            /\ pc' = "report"
            /\ UNCHANGED << printed, exitCode >>
       ELSE /\ fslog' = Append(fslog, << "rmtree", "OSError" >>)
            /\ Uncaught("OSError")
    /\ UNCHANGED << TEMP_DIR, temp_to_delete, nextSubmit, tpc, tcmd,
                    exc, times, fs, snapshot, arrivedOk, arrivedFail,
                    yielded, acted, finishOrder,
                    fs0, wsMoved, began, unfinishedAtExit,
                    dur, report, starts, cmdlog, runs >>

Faults ==
    \/ (\E t \in Tasks : SetupFails(t))
    \/ MoveNewFails \/ Crash \/ RemoveOldFails

WorkerSucceeding(t) == Start(t) \/ RunOk(t) \/ Record(t) \/ Finish(t)

FaultNext ==
    \/ MainSucceeding
    \/ (\E t \in Tasks : ChildRaises(t))
    \/ (\E t \in Tasks : WorkerSucceeding(t))
    \/ Faults

FaultSpec == FaultInit /\ [][FaultNext]_vars

(***************************************************************************)
(* Two processes running main() concurrently in one working directory,     *)
(* every task of both succeeding.  Each process has its own TEMP_DIR,      *)
(* temp_to_delete and pool; they share the directory tree.  A task is one  *)
(* step here: it writes only below the TEMP_DIR of its own process.        *)
(***************************************************************************)

\* The state of the single run of the other specifications, which stays
\* as it is while the two processes run.
singleRunVars ==
    << pc, exitCode, TEMP_DIR, temp_to_delete, nextSubmit, tpc, tcmd, exc,
       times, printed, snapshot, arrivedOk, arrivedFail, yielded, acted,
       finishOrder, fslog, fs0, wsMoved, began, unfinishedAtExit, dur,
       report, starts, cmdlog >>

\* The values the random draws of the two processes can take: enough for
\* four names that differ, and for names that coincide.
RunSuffixes == { "1", "2", "3", "4" }

\* The two random.random() draws of process r.
RunChooseNames(r) ==
    /\ runs[r].pc = "start"
    /\ \E a \in RunSuffixes, b \in RunSuffixes :
          runs' = [ runs EXCEPT ![r].TEMP_DIR = TmpDistName(a),
                                ![r].temp_to_delete = TmpDistName(b),
                                ![r].pc = "tasks" ]
    /\ UNCHANGED << fs, singleRunVars >>

\* Task t of process r, every command exiting 0: its setup and its
\* commands' output, below the process's TEMP_DIR.
RunTask(r, t) ==
    /\ runs[r].pc = "tasks"
    /\ t \notin runs[r].done
    /\ fs' = WriteInto(fs, runs[r].TEMP_DIR, TaskPaths(t))
    /\ runs' = [ runs EXCEPT ![r].done = @ \cup {t} ]
    /\ UNCHANGED singleRunVars

\* The as_completed loop of process r has yielded every future.
RunLoopDone(r) ==
    /\ runs[r].pc = "tasks"
    /\ runs[r].done = Tasks
    /\ runs' = [ runs EXCEPT ![r].pc = "move_old" ]
    /\ UNCHANGED << fs, singleRunVars >>

\* Process r: shutil.move("dist", temp_to_delete), FileNotFoundError
\* passed over; another exception ends the process with status 1.
RunMoveOld(r) ==
    /\ runs[r].pc = "move_old"
    /\ LET m == Move(fs, DIST, runs[r].temp_to_delete)
           ok == m.err = "none" \/ Passes(m.err)
       IN /\ fs' = m.fs
          /\ runs' = [ runs EXCEPT
                ![r].swap = Append(@, << "move old", m.err >>),
                ![r].pc = IF ok THEN "move_new" ELSE "terminated",
                ![r].exitCode = IF ok THEN @ ELSE 1 ]
    /\ UNCHANGED singleRunVars

\* Process r: shutil.move(TEMP_DIR, "dist"); an exception ends the
\* process with status 1.
RunMoveNew(r) ==
    /\ runs[r].pc = "move_new"
    /\ LET m == Move(fs, runs[r].TEMP_DIR, DIST)
       IN /\ fs' = m.fs
          /\ runs' = [ runs EXCEPT
                ![r].swap = Append(@, << "move new", m.err >>),
                ![r].moved = IF Exists(fs, runs[r].TEMP_DIR)
                             THEN fs[runs[r].TEMP_DIR] ELSE {},
                ![r].pc = IF m.err = "none" THEN "rmtree" ELSE "terminated",
                ![r].exitCode = IF m.err = "none" THEN @ ELSE 1 ]
    /\ UNCHANGED singleRunVars

\* Process r: shutil.rmtree(temp_to_delete, ignore_errors=True).
RunRemoveOld(r) ==
    /\ runs[r].pc = "rmtree"
    /\ fs' = RmTree(fs, runs[r].temp_to_delete)
    /\ runs' = [ runs EXCEPT ![r].swap = Append(@, << "rmtree", "none" >>),
                             ![r].pc = "report" ]
    /\ UNCHANGED singleRunVars

\* Process r prints its report and ends with status 0.
RunReport(r) ==
    /\ runs[r].pc = "report"
    /\ runs' = [ runs EXCEPT ![r].pc = "terminated", ![r].exitCode = 0 ]
    /\ UNCHANGED << fs, singleRunVars >>

RunStep(r) ==
    \/ RunChooseNames(r)
    \/ (\E t \in Tasks : RunTask(r, t))
    \/ RunLoopDone(r) \/ RunMoveOld(r) \/ RunMoveNew(r)
    \/ RunRemoveOld(r) \/ RunReport(r)

TwoRunsNext == \E r \in Runs : RunStep(r)

TwoRunsSpec == Init /\ [][TwoRunsNext]_vars

(***************************************************************************)
(* Properties.                                                             *)
(***************************************************************************)
AllFinished == \A t \in Tasks : Finished(t)
AllSucceeded == \A t \in Tasks : Succeeded(t)
CommandFailed(t) == exc[t] = "CalledProcessError"
FailingCommand(t) == Commands(t)[tcmd[t]]
SwapStarted == fslog # << >> \/ pc \in { "move_new", "rmtree", "report" }
DistUnchanged ==
    /\ Exists(fs, DIST) <=> Exists(fs0, DIST)
    /\ Exists(fs, DIST) => fs[DIST] = fs0[DIST]
Tracebacks == { p \in printed : p[3] = "traceback" }
PrintedBy(who) == { p \in printed : p[1] = who }

\* C1: once a task's command has exited non-zero, the swap is never
\* started (neither move happens), 'dist' is as it was before the run (or
\* still absent), and the process ends with exit status 1.
C1_FailureNeverPublishes ==
    (\E t \in Tasks : CommandFailed(t)) =>
        /\ ~SwapStarted
        /\ pc # "move_old"
        /\ DistUnchanged
        /\ pc = "terminated" => exitCode = 1

C1_Witness ==
    /\ pc = "terminated"
    /\ exitCode = 1
    /\ Exists(fs0, DIST)
    /\ \E t \in Tasks : CommandFailed(t)
    /\ \E t \in Tasks : Succeeded(t)

\* C2 as stated: when an old output existed before the run, 'dist' is at
\* every moment the complete old output or the complete new one.
C2_OldOrNewAlways ==
    Exists(fs0, DIST) =>
        /\ Exists(fs, DIST)
        /\ fs[DIST] = fs0[DIST] \/ RunOutput \subseteq fs[DIST]

\* C2 amended: 'dist' is at every moment the complete old output, or
\* absent (only between the move of the old output aside and the move of
\* the workspace to 'dist'), or a directory with the complete new output;
\* it is never partially written.
C2_OldAbsentOrNew ==
    /\ Exists(fs, DIST) =>
          \/ Exists(fs0, DIST) /\ fs[DIST] = fs0[DIST]
          \/ RunOutput \subseteq fs[DIST]
    /\ ~Exists(fs, DIST) /\ Exists(fs0, DIST) => pc = "move_new"

C2_Witness ==
    /\ pc = "move_new"
    /\ Exists(fs0, DIST)
    /\ ~Exists(fs, DIST)
    /\ Exists(fs, temp_to_delete)

\* C3: whoever lists 'dist' during a run sees none of the paths this run
\* produces or all of them: 'dist' holds none of them before the workspace
\* is moved, and all of them from that one step on.
C3_AllOrNothing ==
    /\ Exists(fs, DIST) =>
          \/ fs[DIST] \cap RunOutput = {}
          \/ RunOutput \subseteq fs[DIST]
    /\ Exists(fs, DIST) /\ fs[DIST] \cap RunOutput # {} =>
          /\ pc \in { "rmtree", "report", "exiting", "terminated" }
          /\ Len(fslog) >= 2
          /\ fslog[2] = << "move new", "none" >>

C3_Witness ==
    /\ pc = "rmtree"
    /\ Exists(fs0, DIST)
    /\ RunOutput \subseteq fs[DIST]
    /\ fs0[DIST] \cap fs[DIST] = {}

C7_DecisionAfterAllCompleted ==
    acted # NoTask =>
        /\ unfinishedAtExit = {}
        /\ acted = finishOrder[1]

\* C7 amended: the failure decision is taken as soon as as_completed
\* yields a failed future, whether or not sibling tasks are still running;
\* every future yielded before it had succeeded.  The failure acted on is
\* the first failure in completion order, except that among futures that
\* had already failed when as_completed began any one may be taken.
C7_DecisionAtFirstYieldedFailure ==
    acted # NoTask =>
        /\ Failed(acted)
        /\ pc \in { "exiting", "terminated" }
        /\ exitCode = 1
        /\ \A t \in yielded \ {acted} : Succeeded(t)
        /\ unfinishedAtExit \cap yielded = {}
        /\ IF \E t \in began : exc[t] # NoException
           THEN acted \in began
           ELSE acted = finishOrder[1]

C7_Witness ==
    /\ acted # NoTask
    /\ pc = "exiting"
    /\ \E t \in unfinishedAtExit : tpc[t] = "running"
    /\ began = {}
    /\ yielded # {acted}

\* C8: no task is cancelled.  Whatever the main thread has done, also
\* after it has left the loop on a sibling's failure, the next step of
\* every submitted, unfinished task can be taken, so the task goes on to
\* its completion; a task that completes successfully has run all its
\* steps (its whole output is written, its duration recorded); and the
\* process ends only when every task has completed, which it then can.
C8_StartedTasksComplete ==
    /\ \A t \in Tasks :
          tpc[t] \notin { "unsubmitted", "finished" } => ENABLED Worker(t)
    /\ \A t \in Tasks :
          Succeeded(t) /\ acted # NoTask =>
              /\ Exists(fs, TEMP_DIR)
              /\ TaskPaths(t) \subseteq fs[TEMP_DIR]
              /\ times[t] = 1
    /\ pc = "terminated" => AllFinished
    /\ pc = "exiting" /\ AllFinished => ENABLED Terminate

C8_Witness ==
    /\ pc = "terminated"
    /\ acted # NoTask
    /\ \E t \in unfinishedAtExit : Succeeded(t)
    /\ \E t \in unfinishedAtExit : Failed(t)

\* C9 as stated: run() prints nothing itself when the command fails.
C9_RunIsSilent ==
    PrintedBy("run") = {}

\* C9 amended: when the command exits non-zero, run() itself prints the
\* command, the exception and the captured output, and then hands the
\* failure to its caller; the caller prints nothing about it.
C9_RunPrintsThenRaises ==
    /\ \A t \in Tasks :
          CommandFailed(t) =>
              /\ << "run", FailingCommand(t), "error while running" >> \in printed
              /\ << "run", FailingCommand(t), "exception" >> \in printed
              /\ << "run", FailingCommand(t), "captured output" >> \in printed
              /\ tpc[t] \in { "left", "timed", "finished" }
    /\ \A p \in printed :
          p[1] # "run" => p[3] = "duration"

C9_Witness ==
    \E t \in Tasks :
        /\ tpc[t] = "left"
        /\ << "run", FailingCommand(t), "captured output" >> \in printed

\* C10: when the process exits with status 1 on a command failure, the
\* failing command and its captured output were printed before the exit
\* was requested, and no stack trace is printed.
C10_FailurePrintedNoTraceback ==
    (pc \in { "exiting", "terminated" } /\ exitCode = 1 /\ acted # NoTask
        /\ CommandFailed(acted)) =>
        /\ << "run", FailingCommand(acted), "error while running" >> \in printed
        /\ << "run", FailingCommand(acted), "captured output" >> \in printed
        /\ Tracebacks = {}

C10_Witness ==
    /\ pc = "terminated"
    /\ exitCode = 1
    /\ acted # NoTask
    /\ CommandFailed(acted)
    /\ \E t \in Tasks \ {acted} : CommandFailed(t)

\* C11: on a first build (no 'dist' before the run) in which every task
\* succeeds, the move of the old output meets FileNotFoundError and is
\* passed over; no directory other than the workspace and 'dist' ever
\* exists, the workspace is moved to 'dist', the report is printed and the
\* exit status is 0.
C11_FirstBuildPublishes ==
    ~Exists(fs0, DIST) =>
        /\ DOMAIN fs \subseteq { TEMP_DIR, DIST }
        /\ (pc = "terminated" /\ AllSucceeded) =>
              /\ exitCode = 0
              /\ fslog[1] = << "move old", "FileNotFoundError" >>
              /\ fslog[2] = << "move new", "none" >>
              /\ DOMAIN fs = { DIST }
              /\ fs[DIST] = RunOutput
              /\ << "main", "total", "duration" >> \in printed

C11_Witness ==
    /\ pc = "terminated"
    /\ AllSucceeded
    /\ ~Exists(fs0, DIST)
    /\ Len(fslog) = 3
    /\ Exists(fs, DIST)
    /\ exitCode = 0

\* C12: the registered tasks are pairwise different, each is submitted
\* before the loop over the futures begins, no task is entered more than
\* once, a task whose command failed is not entered again, and when the
\* process has ended every task has been entered exactly once.
C12_EachTaskOnce ==
    /\ \A i, j \in 1..Len(SubmitOrder) :
          i # j => SubmitOrder[i] # SubmitOrder[j]
    /\ \A t \in Tasks :
          /\ starts[t] <= 1
          /\ pc \notin { "start", "submit" } => tpc[t] # "unsubmitted"
          /\ CommandFailed(t) =>
                starts[t] = 1 /\ tpc[t] \in { "left", "timed", "finished" }
          /\ pc = "terminated" => starts[t] = 1

C12_Witness ==
    /\ pc = "terminated"
    /\ \A t \in Tasks : starts[t] = 1
    /\ \E t \in Tasks : CommandFailed(t)
    /\ \E t \in Tasks : Succeeded(t)
    /\ exitCode = 1

\* C13 as stated: once the names are drawn, the disposable name differs
\* from the workspace name, and the old output is never moved into the
\* workspace.
C13_NamesDiffer ==
    pc # "start" =>
        /\ temp_to_delete # TEMP_DIR
        /\ \A p \in wsMoved : p[1] # DIST

\* What task t has written below the directory it is given: its setup,
\* once entered, and the output of each of its commands that exited 0.
Written(t) ==
    LET done == IF tcmd[t] = 0 THEN {}
                ELSE IF tpc[t] = "running" \/ exc[t] # NoException
                THEN 1..(tcmd[t] - 1)
                ELSE 1..Len(Commands(t))
    IN (IF tcmd[t] = 0 THEN {} ELSE SetupPaths(t))
         \cup UNION { CommandOutput(t, k) : k \in done }

\* C15: when the process has ended after a command failure, no move and no
\* rmtree has been attempted, and the workspace exists under its workspace
\* name holding exactly what the tasks wrote; 'dist' is as before the run.
C15_FailedRunKeepsWorkspace ==
    (pc \in { "exiting", "terminated" } /\ acted # NoTask
        /\ CommandFailed(acted)) =>
        /\ fslog = << >>
        /\ DistUnchanged
        /\ (\E t \in Tasks : Written(t) # {}) =>
              /\ Exists(fs, TEMP_DIR)
              /\ fs[TEMP_DIR] = UNION { Written(t) : t \in Tasks }
        /\ DOMAIN fs \subseteq { TEMP_DIR } \cup DOMAIN fs0
        /\ pc = "terminated" => Exists(fs, TEMP_DIR)

C15_Witness ==
    /\ pc = "terminated"
    /\ exitCode = 1
    /\ acted # NoTask
    /\ CommandFailed(acted)
    /\ Exists(fs0, DIST)
    /\ Exists(fs, TEMP_DIR)
    /\ \E t \in Tasks : Succeeded(t) /\ TaskPaths(t) \subseteq fs[TEMP_DIR]

\* C17: the first step of the swap is taken only when every task has
\* finished without an exception; from then on no task is queued, running
\* or still to record, and no task writes any more.
C17_SwapAfterAllSucceeded ==
    (pc = "move_old" \/ SwapStarted) =>
        /\ \A t \in Tasks : tpc[t] = "finished" /\ exc[t] = NoException
        /\ \A t \in Tasks : ~ENABLED Worker(t)

C17_Witness ==
    /\ pc = "move_new"
    /\ fslog = << << "move old", "none" >> >>
    /\ \A t \in Tasks : tpc[t] = "finished"
    /\ began # Tasks

\* C20: when the report reads 'times', every task has finished and has
\* made its one assignment to 'times'; no worker has a step left, so none
\* writes 'times' while or after the report reads it.
C20_TimesReadAfterWrites ==
    (pc = "report" \/ report # << >>) =>
        /\ \A t \in Tasks : tpc[t] = "finished" /\ times[t] = 1
        /\ \A t \in Tasks : ~ENABLED Worker(t)

C20_Witness ==
    /\ report # << >>
    /\ pc = "terminated"
    /\ \A t \in Tasks : times[t] = 1
    /\ began = {}

\* C14: when rmtree of the disposable directory fails after the workspace
\* was moved to 'dist', 'dist' holds what the workspace held, including the
\* whole output of the run, the process goes on to the report and ends
\* with exit status 0 and the total line printed.  And a directory left
\* under a tmpDist name by an earlier run does not keep an all-success run
\* in which no move raises OSError from publishing with exit status 0.
C14_RmtreeFailureHarmless ==
    /\ (Len(fslog) = 3 /\ fslog[3][2] # "none") =>
          /\ Exists(fs, DIST)
          /\ fs[DIST] = wsMoved
          /\ RunOutput \subseteq fs[DIST]
          /\ pc \in { "report", "exiting", "terminated" }
          /\ pc = "terminated" =>
                /\ exitCode = 0
                /\ << "main", "total", "duration" >> \in printed
    /\ (pc = "terminated" /\ Exists(fs0, LeftoverName) /\ AllSucceeded
          /\ Len(fslog) = 3) =>
          /\ exitCode = 0
          /\ Exists(fs, DIST)
          /\ RunOutput \subseteq fs[DIST]
          /\ fs[DIST] = wsMoved

C14_Witness ==
    /\ pc = "terminated"
    /\ Len(fslog) = 3
    /\ fslog[3] = << "rmtree", "ignored" >>
    /\ Exists(fs, temp_to_delete)
    /\ Exists(fs0, LeftoverName)
    /\ temp_to_delete = LeftoverName
    /\ fs[DIST] = RunOutput
    /\ exitCode = 0

\* C16: once a task's own directory setup has raised OSError, the swap is
\* never started, 'dist' stays as it was before the run, and the process
\* ends with exit status 1.
C16_SetupErrorIsFatal ==
    (\E t \in Tasks : exc[t] = "OSError") =>
        /\ ~SwapStarted
        /\ pc # "move_old"
        /\ DistUnchanged
        /\ pc = "terminated" => exitCode = 1

C16_Witness ==
    /\ pc = "terminated"
    /\ exitCode = 1
    /\ acted # NoTask
    /\ exc[acted] = "OSError"
    /\ << "interpreter", "OSError", "traceback" >> \in printed
    /\ \A t \in Tasks \ {acted} : Succeeded(t)

\* The run stopped between the two moves: killed, or ended by an OSError
\* of the second move.
StoppedBetweenMoves ==
    \/ pc = "killed"
    \/ Len(fslog) = 2 /\ fslog[2] = << "move new", "OSError" >>

\* C18: when the run stopped between the two moves, there is no 'dist';
\* the old output is under the disposable name (as that directory, or as
\* its entry 'dist' when a directory of that name existed already); the
\* workspace is under its name with the whole output of the run; a killed
\* process takes no further step, and no later state has a 'dist'.
C18_StoppedBetweenMovesNoDist ==
    StoppedBetweenMoves =>
        /\ ~Exists(fs, DIST)
        /\ Exists(fs, temp_to_delete)
        /\ IF Exists(fs0, temp_to_delete) \/ temp_to_delete = TEMP_DIR
           THEN { << DIST >> \o q : q \in fs0[DIST] } \subseteq fs[temp_to_delete]
           ELSE fs[temp_to_delete] = fs0[DIST]
        /\ Exists(fs, TEMP_DIR)
        /\ RunOutput \subseteq fs[TEMP_DIR]
        /\ pc = "killed" => ~ENABLED FaultNext
        /\ pc \in { "killed", "exiting", "terminated" }

C18_Witness ==
    /\ pc = "killed"
    /\ ~Exists(fs, DIST)
    /\ TEMP_DIR # temp_to_delete
    /\ fs[temp_to_delete] = OldOutput
    /\ fs[TEMP_DIR] = RunOutput

\* C19: the report is printed only after the three steps of the swap; it
\* has one line for each task, no task twice, ordered by non-decreasing
\* recorded duration, and then one total line as its last line; a run in
\* which every task succeeded has printed it when the process has ended.
\* The registry has eight tasks.
C19_ReportAfterSwapSorted ==
    /\ Len(Registry) = 8
    /\ (pc = "terminated" /\ AllSucceeded) => report # << >>
    /\ report # << >> =>
          LET n == Len(report) - 1 IN
            /\ Len(fslog) = 3
            /\ fslog[2] = << "move new", "none" >>
            /\ fslog[3][1] = "rmtree"
            /\ n = Len(SubmitOrder)
            /\ report[n + 1] = "total"
            /\ \A t \in Tasks : \E i \in 1..n : report[i] = t
            /\ \A i, j \in 1..n : i # j => report[i] # report[j]
            /\ \A i \in 1..n : report[i] \in Tasks /\ dur[report[i]] > 0
            /\ \A i, j \in 1..n : i < j => dur[report[i]] <= dur[report[j]]

C19_Witness ==
    /\ report # << >>
    /\ pc = "terminated"
    /\ exitCode = 0
    /\ dur[report[1]] = dur[report[2]]
    /\ dur[report[2]] < dur[report[3]]
    /\ report[1] = SubmitOrder[Len(SubmitOrder)]

\* C22: build_cjs_and_esm has three commands; its run() calls are made in
\* the order of the commands, each at most once and each only after the
\* one before it exited 0; after a command that exited non-zero no further
\* run() call of the task is made, the task has left with
\* CalledProcessError, and its future finishes as failed.
C22_CommandsInSequenceFirstFailureEnds ==
    LET t == "build_cjs_and_esm"
        L == cmdlog[t]
    IN  /\ t \in Tasks
        /\ Len(Commands(t)) = 3
        /\ Len(L) <= Len(Commands(t))
        /\ \A i \in 1..Len(L) : L[i][1] = i
        /\ \A i \in 1..Len(L) : i < Len(L) => L[i][2] = "exit 0"
        /\ (Len(L) > 0 /\ L[Len(L)][2] = "exit non-zero") =>
              /\ exc[t] = "CalledProcessError"
              /\ tpc[t] \in { "left", "timed", "finished" }
              /\ ~ENABLED RunOk(t)
              /\ ~ENABLED RunFail(t)
              /\ pc = "terminated" => tpc[t] = "finished"

C22_Witness ==
    /\ pc = "terminated"
    /\ cmdlog["build_cjs_and_esm"] =
          << << 1, "exit 0" >>, << 2, "exit non-zero" >> >>
    /\ tpc["build_cjs_and_esm"] = "finished"
    /\ exc["build_cjs_and_esm"] = "CalledProcessError"
    /\ << "cjs", "out" >> \notin fs[TEMP_DIR]

\* The names of the two processes are four different names.
NamesAllDiffer ==
    \A r \in Runs :
        /\ runs[r].TEMP_DIR # runs[r].temp_to_delete
        /\ \A q \in Runs \ {r} :
              /\ runs[r].TEMP_DIR # runs[q].TEMP_DIR
              /\ runs[r].TEMP_DIR # runs[q].temp_to_delete
              /\ runs[r].temp_to_delete # runs[q].temp_to_delete

\* C21 as stated, for two processes whose four names differ: when both
\* have ended, neither swap step raised (but for the FileNotFoundError
\* that is passed over), both ended with status 0, and 'dist' is exactly
\* the workspace of one of them, without the other's workspace inside.
C21_ConcurrentRunsPublishOne ==
    ((\A r \in Runs : runs[r].pc = "terminated") /\ NamesAllDiffer) =>
        /\ \A r \in Runs :
              /\ runs[r].exitCode = 0
              /\ \A i \in 1..Len(runs[r].swap) :
                    runs[r].swap[i][2] \in { "none", "FileNotFoundError" }
        /\ Exists(fs, DIST)
        /\ fs[DIST] = RunOutput
        /\ \A r \in Runs : << runs[r].TEMP_DIR >> \notin fs[DIST]

====
